---- MODULE Spec2Model ----
(***************************************************************************)
(* Model of the Vlinder reverse proxy (server/reverse_proxy.py) in front   *)
(* of its two backends, the asset server (server/serve_assets.py) and the  *)
(* log server (server/log_server.py).                                      *)
(*                                                                         *)
(* The proxy is a socketserver.TCPServer: it serves one connection at a    *)
(* time, one request per connection (HTTP/1.0).  A request is accepted,    *)
(* dispatched to the do_<METHOD> handler, which computes the target URL    *)
(* and the body and calls _proxy_request, which builds the outbound        *)
(* request, calls the backend and relays the outcome.                      *)
(*                                                                         *)
(* Text (paths, URLs, header names and values, bodies) is modelled by TLA+ *)
(* strings, with \o, Len and SubSeq as Python's +, len and slicing.        *)
(***************************************************************************)
EXTENDS Integers, Sequences, FiniteSets, TLC

\* ---------------------------------------------------------------------
\* Bounds of the model
\* ---------------------------------------------------------------------

\* Number of requests the listener accepts in one behaviour.
MaxRequests == 2

\* ---------------------------------------------------------------------
\* Program constants
\* ---------------------------------------------------------------------

ASSET_SERVER_URL == "http://localhost:8002"

LOG_SERVER_URL == "http://localhost:8001"

\* ---------------------------------------------------------------------
\* Python values
\* ---------------------------------------------------------------------

\* Python's None, and a value v that is not None, as a sequence of at most
\* one element (so that None and b"" stay distinct).
None == <<>>

Some(v) == <<v>>

\* Truthiness of an Optional[bytes]: None and b"" are both falsy.
Truthy(b) == b # None /\ Len(b[1]) > 0

\* s.startswith(prefix)
StartsWith(s, prefix) ==
    /\ Len(s) >= Len(prefix)
    /\ SubSeq(s, 1, Len(prefix)) = prefix

UpperChars == "ABCDEFGHIJKLMNOPQRSTUVWXYZ"

LowerChars == "abcdefghijklmnopqrstuvwxyz"

\* The one-character strings of a string.
CharsOf(chars) == {SubSeq(chars, i, i) : i \in 1..Len(chars)}

\* The position of the one-character string c in the string chars.
IndexIn(c, chars) == CHOOSE i \in 1..Len(chars) : SubSeq(chars, i, i) = c

ToLower == [c \in CharsOf(UpperChars) |->
               SubSeq(LowerChars, IndexIn(c, UpperChars), IndexIn(c, UpperChars))]

ToUpper == [c \in CharsOf(LowerChars) |->
               SubSeq(UpperChars, IndexIn(c, LowerChars), IndexIn(c, LowerChars))]

LowerChar(c) == IF c \in DOMAIN ToLower THEN ToLower[c] ELSE c

UpperChar(c) == IF c \in DOMAIN ToUpper THEN ToUpper[c] ELSE c

\* str.lower(), character by character.
RECURSIVE LowerOf(_)
LowerOf(s) ==
    IF Len(s) = 0 THEN ""
    ELSE LowerChar(SubSeq(s, 1, 1)) \o LowerOf(SubSeq(s, 2, Len(s)))

\* The header names that occur in the requests and responses of the model,
\* lower-cased once.
LowerOfName ==
    [s \in {"Host", "host", "Connection", "CONNECTION", "connection",
            "Content-Length", "content-length", "Content-length",
            "Content-Type", "Content-type", "X-Trace", "x-trace",
            "X-trace", "X-Backend",
            "Cache-Control", "Access-Control-Allow-Origin",
            "access-control-allow-origin", "Access-Control-Allow-Methods",
            "Access-Control-Allow-Headers"} |-> LowerOf(s)]

\* str.lower()
Lower(s) == IF s \in DOMAIN LowerOfName THEN LowerOfName[s] ELSE LowerOf(s)

\* str.capitalize(): first character upper-cased, the rest lower-cased.
Capitalize(s) ==
    IF Len(s) = 0 THEN ""
    ELSE UpperChar(SubSeq(s, 1, 1)) \o LowerOf(SubSeq(s, 2, Len(s)))

Digits == "0123456789"

DigitValue == [c \in CharsOf(Digits) |-> IndexIn(c, Digits) - 1]

IsDigits(s) ==
    /\ Len(s) > 0
    /\ \A i \in 1..Len(s) : SubSeq(s, i, i) \in DOMAIN DigitValue

RECURSIVE DigitsValue(_)
DigitsValue(s) ==
    IF Len(s) = 0 THEN 0
    ELSE 10 * DigitsValue(SubSeq(s, 1, Len(s) - 1))
         + DigitValue[SubSeq(s, Len(s), Len(s))]

\* int(v) of a header value v: <<n>> for a decimal integer with an optional
\* sign, None where Python raises ValueError.
ParseInt(s) ==
    IF IsDigits(s) THEN Some(DigitsValue(s))
    ELSE IF Len(s) > 1 /\ SubSeq(s, 1, 1) = "-" /\ IsDigits(SubSeq(s, 2, Len(s)))
         THEN Some(0 - DigitsValue(SubSeq(s, 2, Len(s))))
    ELSE IF Len(s) > 1 /\ SubSeq(s, 1, 1) = "+" /\ IsDigits(SubSeq(s, 2, Len(s)))
         THEN Some(DigitsValue(SubSeq(s, 2, Len(s))))
    ELSE None

\* str(n) of a natural number n.
RECURSIVE IntToStr(_)
IntToStr(n) ==
    IF n < 10 THEN SubSeq(Digits, n + 1, n + 1)
    ELSE IntToStr(n \div 10) \o SubSeq(Digits, (n % 10) + 1, (n % 10) + 1)

\* ---------------------------------------------------------------------
\* Header lists (email.message.Message): sequences of <<name, value>>
\* ---------------------------------------------------------------------

\* Message.get(name, default): the value of the first header whose name
\* matches case-insensitively.
HeaderGet(msg, name, default) ==
    IF \E i \in 1..Len(msg) : Lower(msg[i][1]) = Lower(name)
    THEN msg[CHOOSE i \in 1..Len(msg) :
                /\ Lower(msg[i][1]) = Lower(name)
                /\ \A j \in 1..(i - 1) : Lower(msg[j][1]) # Lower(name)][2]
    ELSE default

\* dict(self.headers): keys are the header names as sent (Message.keys()),
\* and each key maps to Message[key], the first case-insensitive match.
DictOfHeaders(msg) ==
    [k \in {msg[i][1] : i \in 1..Len(msg)} |-> HeaderGet(msg, k, "")]

\* The occurrences of a header name (case-insensitive) in a header list.
Occurrences(msg, name) ==
    {i \in 1..Len(msg) : Lower(msg[i][1]) = Lower(name)}

\* ---------------------------------------------------------------------
\* Inputs: the requests a client can send
\* ---------------------------------------------------------------------

Methods == {"GET", "POST", "PUT", "DELETE", "OPTIONS"}

Paths ==
    {"/", "/logs", "/logs/health", "/logsX", "/health", "/healthz?x=1",
     "/index.ht?v=1", "/missing.ht", "/Logs", "/api/logs"}

\* The bytes the client sends after the request headers.
Streams == {"", "ab"}

\* The Content-Length header of the request: absent, or one header.
ContentLengthHeaders ==
    {<<>>} \cup
    {<< <<"Content-Length", v>> >> : v \in {"0", "1", "2", "5", "abc", "-1"}}
    \cup {<< <<"content-length", "2">> >>}

\* The other headers of the request.
ExtraHeaders ==
    { <<>>,
      << <<"Host", "evil.example">>, <<"X-Trace", "1">>, <<"x-trace", "2">> >>,
      << <<"CONNECTION", "keep-alive">>,
         <<"Content-Type", "application/json">> >> }

\* ---------------------------------------------------------------------
\* The CORS headers of the proxy
\* ---------------------------------------------------------------------

CorsOrigin == <<"Access-Control-Allow-Origin", "*">>

CorsMethods == <<"Access-Control-Allow-Methods", "GET, POST, OPTIONS">>

CorsHeaders == <<"Access-Control-Allow-Headers", "Content-Type, Content-Encoding">>

TextPlain == <<"Content-Type", "text/plain">>

\* ---------------------------------------------------------------------
\* The backends, as the proxy sees them through urllib.request.urlopen
\* ---------------------------------------------------------------------

\* Headers of a response of the asset server (CORSRequestHandler.end_headers).
AssetHeaders ==
    << <<"Content-type", "text/plain">>,
       <<"Access-Control-Allow-Origin", "*">>,
       <<"Access-Control-Allow-Methods", "GET, OPTIONS">>,
       <<"Access-Control-Allow-Headers", "Content-Type">>,
       <<"Cache-Control", "no-cache, no-store, must-revalidate">> >>

\* Headers of the log server's answer to an accepted batch.
LogHeaders ==
    << <<"Content-Type", "application/json">>,
       <<"Access-Control-Allow-Origin", "*">> >>

\* Headers of the log server's answer to GET /health.
HealthHeaders == << <<"Content-Type", "application/json">> >>

\* Headers an HTTP endpoint may send besides these.
OtherHeaders ==
    << <<"CONNECTION", "close">>,
       <<"X-Backend", "b">>,
       <<"access-control-allow-origin", "https://a.example">>,
       <<"Connection", "keep-alive">> >>

BackendHeaderSets == {AssetHeaders, LogHeaders, HealthHeaders, OtherHeaders}

BackendBodies == {"", "{\"status\": \"ok\", \"received\": 1}"}

\* The body of a backend that echoes the request body.
EchoBody(r) == IF r.data = None THEN "" ELSE r.data[1]

Outcome(k, st, rs, hs, b) ==
    [kind |-> k, status |-> st, reason |-> rs, headers |-> hs, body |-> b]

\* urlopen returns a response: the backend answered with a 2xx status.
SuccessOutcomes(r) ==
    {Outcome("ok", 200, "OK", hs, b) :
        hs \in BackendHeaderSets, b \in BackendBodies \cup {EchoBody(r)}}
    \cup {Outcome("ok", 201, "Created", LogHeaders, "")}

\* urlopen raises urllib.error.HTTPError: code, reason phrase, and the
\* backend's error body (which stays unread in the exception).
HTTPErrorOutcomes ==
    {Outcome("HTTPError", 404, "File not found", AssetHeaders, "<html>404</html>"),
     Outcome("HTTPError", 404, "Not Found", <<>>, ""),
     Outcome("HTTPError", 400, "Bad Request", <<>>, ""),
     Outcome("HTTPError", 500, "Internal Server Error", <<>>,
             "{\"status\": \"error\", \"message\": \"x\"}")}

\* urlopen raises another exception; reason is str(e).
ExceptionOutcomes ==
    {Outcome("Exception", 0, rs, <<>>, "") :
        rs \in {"<urlopen error [Errno 111] Connection refused>",
                "timed out",
                "<urlopen error [Errno -2] Name or service not known>",
                "Remote end closed connection without response"}}

\* ---------------------------------------------------------------------
\* State
\* ---------------------------------------------------------------------

VARIABLES
    pc,             \* position of the request being served
    nreq,           \* number of requests accepted so far
    method,         \* self.command
    path,           \* self.path
    headers,        \* self.headers
    rfile,          \* the request bytes that follow the headers
    call,           \* the arguments of _proxy_request
    req,            \* the urllib.request.Request sent to the backend
    response,       \* what urlopen produced
    backend_calls,  \* number of calls made to each backend
    sent_status,    \* status lines written to the client (send_response)
    sent_headers,   \* headers written to the client (send_header)
    ended,          \* end_headers was called
    wfile,          \* bodies written to the client (wfile.write)
    only_options,   \* history: every request accepted so far was an OPTIONS
    calls,          \* the backends called for the request being served
    failed_before   \* history: an earlier request ended in a failure

\* The state of the log server (server/log_server.py).
VARIABLES
    sink_conn,      \* the connections to the log server and their handlers
    sink_files      \* the log files: file name -> lines appended, in order

sink_vars == <<sink_conn, sink_files>>

vars ==
    <<pc, nreq, method, path, headers, rfile, call, req, response,
      backend_calls, sent_status, sent_headers, ended, wfile, only_options,
      calls, failed_before>>

all_vars == <<vars, sink_vars>>

NoCall == [target_url |-> "", method |-> "", body |-> None, headers |-> <<>>]

NoReq == [full_url |-> "", method |-> "", data |-> None, headers |-> <<>>]

NoResponse == Outcome("none", 0, "", <<>>, "")

Terminal == {"RELAYED", "ERROR_RELAYED", "ANSWERED", "ABORTED"}

\* ---------------------------------------------------------------------
\* The log server: data (server/log_server.py)
\* ---------------------------------------------------------------------

\* The connections that post to the log server.
MaxBatches == 2

SinkConns == 1..MaxBatches

\* JSON values as json.loads returns them: a type tag and a payload.
JStr(s) == [t |-> "str", v |-> s]

JInt(s) == [t |-> "int", v |-> s]

JList(q) == [t |-> "list", v |-> q]

JDict(r) == [t |-> "dict", v |-> r]

\* The request bodies posted to the log server, as texts.
BatchOne ==
    "{\"device_id\":\"dev1\",\"logs\":[{\"level\":\"INFO\",\"component\":\"ui\",\"message\":\"started\"}]}"

BatchTwo ==
    "{\"device_id\":\"dev1\",\"logs\":[{\"message\":\"a\"},{\"timestamp\":\"t1\",\"level\":\"WARN\",\"message\":\"b\"}]}"

BatchNoDevice == "{\"logs\":[{\"message\":\"c\"}]}"

BatchEmpty == "{\"device_id\":\"dev1\",\"logs\":[]}"

BatchBadEntry == "{\"device_id\":\"dev1\",\"logs\":[{\"message\":\"a\"},5]}"

BatchLogsNotList == "{\"device_id\":\"dev1\",\"logs\":5}"

JsonArray == "[1,2]"

NotJson == "not json"

\* Bytes that are not UTF-8 text.
BadUtf8 == "\\xff\\xfe"

\* gzip.compress(b): a gzip member holding b.
GzipCompress(b) == "\\x1f\\x8b" \o b

SinkBodies ==
    {"", BatchOne, BatchTwo, BatchNoDevice, BatchEmpty, BatchBadEntry,
     BatchLogsNotList, JsonArray, NotJson, BadUtf8,
     GzipCompress(BatchOne), GzipCompress(NotJson)}

SinkPaths == {"/logs", "/", "/health"}

SinkEncodings == {"", "gzip"}

\* gzip.decompress(b): the member's content, or BadGzipFile (None) when
\* b does not start with the gzip magic number.
GzipDecompress(b) ==
    IF StartsWith(b, "\\x1f\\x8b")
    THEN Some(SubSeq(b, Len("\\x1f\\x8b") + 1, Len(b)))
    ELSE None

\* b.decode('utf-8'): the text, or UnicodeDecodeError (None).
Utf8Decode(b) ==
    IF StartsWith(b, "\\xff") \/ StartsWith(b, "\\x1f\\x8b")
    THEN None ELSE Some(b)

\* json.loads(text) over the texts above: the value, or JSONDecodeError
\* (None).
JsonLoads(text) ==
    CASE text = BatchOne ->
           Some(JDict([device_id |-> JStr("dev1"),
                       logs |-> JList(<<JDict([level |-> JStr("INFO"),
                                               component |-> JStr("ui"),
                                               message |-> JStr("started")])>>)]))
      [] text = BatchTwo ->
           Some(JDict([device_id |-> JStr("dev1"),
                       logs |-> JList(<<JDict([message |-> JStr("a")]),
                                        JDict([timestamp |-> JStr("t1"),
                                               level |-> JStr("WARN"),
                                               message |-> JStr("b")])>>)]))
      [] text = BatchNoDevice ->
           Some(JDict([logs |-> JList(<<JDict([message |-> JStr("c")])>>)]))
      [] text = BatchEmpty ->
           Some(JDict([device_id |-> JStr("dev1"), logs |-> JList(<<>>)]))
      [] text = BatchBadEntry ->
           Some(JDict([device_id |-> JStr("dev1"),
                       logs |-> JList(<<JDict([message |-> JStr("a")]),
                                        JInt("5")>>)]))
      [] text = BatchLogsNotList ->
           Some(JDict([device_id |-> JStr("dev1"), logs |-> JInt("5")]))
      [] text = JsonArray -> Some(JList(<<JInt("1"), JInt("2")>>))
      [] OTHER -> None

\* d.get(key, default) on a dict.
DictGet(d, key, default) ==
    IF key \in DOMAIN d.v THEN d.v[key] ELSE default

\* datetime.now().isoformat() and datetime.now().strftime('%Y%m%d').
Now == "2026-11-06T12:00:00"

Today == "20261106"

\* LOG_DIR / f"{device_id}_{date}.log"
LogFileName(device_id) == device_id.v \o "_" \o Today \o ".log"

SinkFileNames == {LogFileName(JStr(d)) : d \in {"dev1", "unknown"}}

\* The record json.dumps writes for one log entry.
LogLine(log_entry, timestamp, device_id) ==
    [timestamp |-> DictGet(log_entry, "timestamp", JStr(timestamp)),
     level     |-> DictGet(log_entry, "level", JStr("DEBUG")),
     component |-> DictGet(log_entry, "component", JStr("")),
     message   |-> DictGet(log_entry, "message", JStr("")),
     device_id |-> device_id]

\* What is written to a file: the line of entry number `entry` of the
\* batch of connection `batch`, whole ("line") or, when the file buffer
\* filled up inside it, in two parts ("head" then "tail").
Chunk(batch, entry, part, line) ==
    [batch |-> batch, entry |-> entry, part |-> part, line |-> line]

\* The acknowledgement without the count of entries.
OkJson_NoCount(n) == "{\"status\": \"ok\"}"

\* json.dumps({'status': 'ok', 'received': len(logs)})
OkJson(n) == "{\"status\": \"ok\", \"received\": " \o IntToStr(n) \o "}"

\* json.dumps({'status': 'error', 'message': str(e)})
ErrorJson(msg) == "{\"status\": \"error\", \"message\": \"" \o msg \o "\"}"

SinkResponse(st, rs, hs, b) ==
    [status |-> st, reason |-> rs, headers |-> hs, body |-> b]

NoSinkResponse == SinkResponse(0, "", <<>>, "")

\* A connection nobody has used yet, and one that was closed.
NoSinkConn ==
    [pc |-> "WAITING", path |-> "", encoding |-> "", rfile |-> "",
     device_id |-> JStr(""), logs |-> JList(<<>>), log_file |-> "",
     k |-> 0, f |-> <<>>, resp |-> NoSinkResponse, client |-> NoSinkResponse]

SinkInit ==
    /\ sink_conn = [c \in SinkConns |-> NoSinkConn]
    /\ sink_files = [n \in SinkFileNames |-> <<>>]

Init ==
    /\ pc = "IDLE"
    /\ nreq = 0
    /\ method = ""
    /\ path = ""
    /\ headers = <<>>
    /\ rfile = ""
    /\ call = NoCall
    /\ req = NoReq
    /\ response = NoResponse
    /\ backend_calls = [log |-> 0, asset |-> 0]
    /\ sent_status = <<>>
    /\ sent_headers = <<>>
    /\ ended = FALSE
    /\ wfile = <<>>
    /\ only_options = TRUE
    /\ calls = <<>>
    /\ failed_before = FALSE
    /\ SinkInit

\* ---------------------------------------------------------------------
\* The listener
\* ---------------------------------------------------------------------

\* A listener with a worker per connection: it accepts the next connection
\* whatever the request in progress is doing.
Accept_WorkerPerConnection ==
    /\ nreq < MaxRequests
    /\ \E m \in Methods, p \in Paths, xh \in ExtraHeaders,
          cl \in ContentLengthHeaders, s \in Streams :
          /\ method' = m
          /\ path' = p
          /\ headers' = xh \o cl
          /\ rfile' = s
    /\ only_options' = (only_options /\ method' = "OPTIONS")
    /\ nreq' = nreq + 1
    /\ pc' = "RECEIVED"
    /\ UNCHANGED <<call, req, response, backend_calls, sent_status,
                   sent_headers, ended, wfile, calls, failed_before>>
    /\ UNCHANGED sink_vars

\* httpd.serve_forever(): the listener accepts the next connection and
\* parses the request line and the headers.
Accept ==
    /\ pc = "IDLE"
    /\ nreq < MaxRequests
    /\ \E m \in Methods, p \in Paths, xh \in ExtraHeaders,
          cl \in ContentLengthHeaders, s \in Streams :
          /\ method' = m
          /\ path' = p
          /\ headers' = xh \o cl
          /\ rfile' = s
    /\ only_options' = (only_options /\ method' = "OPTIONS")
    /\ nreq' = nreq + 1
    /\ pc' = "RECEIVED"
    /\ UNCHANGED <<call, req, response, backend_calls, sent_status,
                   sent_headers, ended, wfile, calls, failed_before>>
    /\ UNCHANGED sink_vars

\* The listener without the exception handling of socketserver: a handler
\* that raised takes the listener down with it.
Finish_UnlessRaised ==
    /\ pc \in Terminal \ {"ABORTED"}
    /\ pc' = "IDLE"
    /\ method' = ""
    /\ path' = ""
    /\ headers' = <<>>
    /\ rfile' = ""
    /\ call' = NoCall
    /\ req' = NoReq
    /\ response' = NoResponse
    /\ sent_status' = <<>>
    /\ sent_headers' = <<>>
    /\ ended' = FALSE
    /\ wfile' = <<>>
    /\ calls' = <<>>
    /\ failed_before' = (failed_before \/ pc \in {"ERROR_RELAYED", "ABORTED"})
    /\ UNCHANGED <<nreq, backend_calls, only_options>>
    /\ UNCHANGED sink_vars

\* The handler returned, or raised: the listener closes the connection,
\* drops the handler object and goes back to accepting.
Finish ==
    /\ pc \in Terminal
    /\ pc' = "IDLE"
    /\ method' = ""
    /\ path' = ""
    /\ headers' = <<>>
    /\ rfile' = ""
    /\ call' = NoCall
    /\ req' = NoReq
    /\ response' = NoResponse
    /\ sent_status' = <<>>
    /\ sent_headers' = <<>>
    /\ ended' = FALSE
    /\ wfile' = <<>>
    /\ calls' = <<>>
    /\ failed_before' = (failed_before \/ pc \in {"ERROR_RELAYED", "ABORTED"})
    /\ UNCHANGED <<nreq, backend_calls, only_options>>
    /\ UNCHANGED sink_vars

\* ---------------------------------------------------------------------
\* The handlers of ReverseProxyHandler
\* ---------------------------------------------------------------------

\* TargetURL with the prefixes matched case-insensitively.
TargetURL_CaseInsensitive(m, p) ==
    IF m = "GET"
    THEN IF StartsWith(Lower(p), "/health")
         THEN LOG_SERVER_URL \o p
         ELSE ASSET_SERVER_URL \o p
    ELSE IF m = "POST"
    THEN IF StartsWith(Lower(p), "/logs")
         THEN LOG_SERVER_URL \o p
         ELSE ASSET_SERVER_URL \o p
    ELSE ASSET_SERVER_URL \o p

\* The target_url each handler computes: do_GET sends /health... to the log
\* server, do_POST sends /logs... to the log server, and everything else,
\* with all of do_PUT and do_DELETE, goes to the asset server.
TargetURL(m, p) ==
    IF m = "GET"
    THEN IF p = "/health" \/ StartsWith(p, "/health")
         THEN LOG_SERVER_URL \o p
         ELSE ASSET_SERVER_URL \o p
    ELSE IF m = "POST"
    THEN IF p = "/logs" \/ StartsWith(p, "/logs")
         THEN LOG_SERVER_URL \o p
         ELSE ASSET_SERVER_URL \o p
    ELSE ASSET_SERVER_URL \o p

\* int(self.headers.get('Content-Length', 0))
ContentLength(msg) == ParseInt(HeaderGet(msg, "Content-Length", "0"))

\* The body read one byte short of Content-Length.
ReadBodyAndRoute_OneShort(m) ==
    LET cl == ContentLength(headers)
    IN  IF cl = None
        THEN /\ pc' = "ABORTED"
             /\ UNCHANGED call
        ELSE IF cl[1] > 0 /\ Len(rfile) < cl[1]
        THEN /\ pc' = "READING"
             /\ UNCHANGED call
        ELSE /\ pc' = "ROUTED"
             /\ call' = [target_url |-> TargetURL(m, path),
                         method |-> m,
                         body |-> IF cl[1] > 0
                                  THEN Some(SubSeq(rfile, 1, cl[1] - 1))
                                  ELSE None,
                         headers |-> DictOfHeaders(headers)]

\* do_POST and do_PUT read the body before they compute the target:
\*   content_length = int(self.headers.get('Content-Length', 0))
\*   body = self.rfile.read(content_length) if content_length > 0 else None
\* int() raises ValueError on a malformed value: the exception leaves the
\* handler, socketserver reports it and closes the connection, and nothing
\* was written.  rfile.read(n) blocks while the client has sent fewer than n
\* bytes and keeps the connection open.
ReadBodyAndRoute(m) ==
    LET cl == ContentLength(headers)
    IN  IF cl = None
        THEN /\ pc' = "ABORTED"
             /\ UNCHANGED call
        ELSE IF cl[1] > 0 /\ Len(rfile) < cl[1]
        THEN /\ pc' = "READING"
             /\ UNCHANGED call
        ELSE /\ pc' = "ROUTED"
             /\ call' = [target_url |-> TargetURL(m, path),
                         method |-> m,
                         body |-> IF cl[1] > 0
                                  THEN Some(SubSeq(rfile, 1, cl[1]))
                                  ELSE None,
                         headers |-> DictOfHeaders(headers)]

\* do_GET up to its call of _proxy_request.
do_GET ==
    /\ pc = "RECEIVED"
    /\ method = "GET"
    /\ call' = [target_url |-> TargetURL("GET", path),
                method |-> "GET",
                body |-> None,
                headers |-> DictOfHeaders(headers)]
    /\ pc' = "ROUTED"
    /\ UNCHANGED <<nreq, method, path, headers, rfile, req, response,
                   backend_calls, sent_status, sent_headers, ended, wfile,
                   only_options,
                   calls, failed_before>>
    /\ UNCHANGED sink_vars

\* do_DELETE up to its call of _proxy_request.
do_DELETE ==
    /\ pc = "RECEIVED"
    /\ method = "DELETE"
    /\ call' = [target_url |-> TargetURL("DELETE", path),
                method |-> "DELETE",
                body |-> None,
                headers |-> DictOfHeaders(headers)]
    /\ pc' = "ROUTED"
    /\ UNCHANGED <<nreq, method, path, headers, rfile, req, response,
                   backend_calls, sent_status, sent_headers, ended, wfile,
                   only_options,
                   calls, failed_before>>
    /\ UNCHANGED sink_vars

\* do_OPTIONS forwarding the preflight to the asset server like do_DELETE.
do_OPTIONS_Forwarded ==
    /\ pc = "RECEIVED"
    /\ method = "OPTIONS"
    /\ call' = [target_url |-> ASSET_SERVER_URL \o path,
                method |-> "OPTIONS",
                body |-> None,
                headers |-> DictOfHeaders(headers)]
    /\ pc' = "ROUTED"
    /\ UNCHANGED <<nreq, method, path, headers, rfile, req, response,
                   backend_calls, sent_status, sent_headers, ended, wfile,
                   only_options,
                   calls, failed_before>>
    /\ UNCHANGED sink_vars

\* do_OPTIONS: the preflight is answered by the proxy itself.
do_OPTIONS ==
    /\ pc = "RECEIVED"
    /\ method = "OPTIONS"
    /\ sent_status' = Append(sent_status, 200)
    /\ sent_headers' = sent_headers \o <<CorsOrigin, CorsMethods, CorsHeaders>>
    /\ ended' = TRUE
    /\ pc' = "ANSWERED"
    /\ UNCHANGED <<nreq, method, path, headers, rfile, call, req, response,
                   backend_calls, wfile, only_options,
                   calls, failed_before>>
    /\ UNCHANGED sink_vars

\* do_POST up to its call of _proxy_request.
do_POST ==
    /\ pc = "RECEIVED"
    /\ method = "POST"
    /\ ReadBodyAndRoute("POST")
    /\ UNCHANGED <<nreq, method, path, headers, rfile, req, response,
                   backend_calls, sent_status, sent_headers, ended, wfile,
                   only_options,
                   calls, failed_before>>
    /\ UNCHANGED sink_vars

\* do_PUT up to its call of _proxy_request.
do_PUT ==
    /\ pc = "RECEIVED"
    /\ method = "PUT"
    /\ ReadBodyAndRoute("PUT")
    /\ UNCHANGED <<nreq, method, path, headers, rfile, req, response,
                   backend_calls, sent_status, sent_headers, ended, wfile,
                   only_options,
                   calls, failed_before>>
    /\ UNCHANGED sink_vars

\* The client closes its sending side while do_POST or do_PUT is blocked in
\* rfile.read(content_length): read returns the bytes that did arrive and
\* the handler goes on.
ReadReturnsShort ==
    /\ pc = "READING"
    /\ call' = [target_url |-> TargetURL(method, path),
                method |-> method,
                body |-> Some(rfile),
                headers |-> DictOfHeaders(headers)]
    /\ pc' = "ROUTED"
    /\ UNCHANGED <<nreq, method, path, headers, rfile, req, response,
                   backend_calls, sent_status, sent_headers, ended, wfile,
                   only_options,
                   calls, failed_before>>
    /\ UNCHANGED sink_vars

\* ---------------------------------------------------------------------
\* _proxy_request
\* ---------------------------------------------------------------------

StrippedRequestHeaders == {"host", "connection", "content-length"}

\* The headers of the urllib Request: req.add_header(header, value) for
\* every header of the dict that is not stripped, then Content-Length when
\* there is a body.  Request.add_header stores under header.capitalize().
RequestHeaders(hdrs, body) ==
    LET kept == {k \in DOMAIN hdrs : Lower(k) \notin StrippedRequestHeaders}
        cl   == IF Truthy(body) THEN {Capitalize("Content-Length")} ELSE {}
    IN  [K \in {Capitalize(k) : k \in kept} \cup cl |->
            IF K \in cl
            THEN IntToStr(Len(body[1]))
            ELSE hdrs[CHOOSE k \in kept : Capitalize(k) = K]]

\* The backend a URL belongs to.
BackendOf(url) ==
    IF StartsWith(url, LOG_SERVER_URL) THEN "log" ELSE "asset"

\* _proxy_request up to urlopen: build the Request and send it.
proxy_request_send ==
    /\ pc = "ROUTED"
    /\ req' = [full_url |-> call.target_url,
               method |-> call.method,
               data |-> call.body,
               headers |-> RequestHeaders(call.headers, call.body)]
    /\ backend_calls' =
           [backend_calls EXCEPT ![BackendOf(call.target_url)] = @ + 1]
    /\ calls' = Append(calls, BackendOf(call.target_url))
    /\ pc' = "FORWARDING"
    /\ UNCHANGED <<nreq, method, path, headers, rfile, call, response,
                   sent_status, sent_headers, ended, wfile,
                   only_options, failed_before>>
    /\ UNCHANGED sink_vars

\* The copy of the response headers with Connection matched as written.
RelayedHeaders_CaseSensitive(hs) ==
    SelectSeq(hs, LAMBDA h : h[1] # "Connection")

\* The backend response headers the proxy copies: all but Connection.
RelayedHeaders(hs) ==
    SelectSeq(hs, LAMBDA h : Lower(h[1]) # "connection")

\* The headers of the relayed response: the copied ones, then the CORS ones.
SuccessHeaders(hs) ==
    RelayedHeaders(hs) \o <<CorsOrigin, CorsMethods, CorsHeaders>>

\* The error responses without the CORS origin header.
ErrorHeaders_NoCors == <<TextPlain>>

\* The headers of both error responses.
ErrorHeaders == <<TextPlain, CorsOrigin>>

\* f"Proxy error: {e.reason}" and f"Proxy error: {str(e)}"
ErrorBody(reason) == "Proxy error: " \o reason

\* urlopen returned: relay status, headers and body.
relay_success ==
    /\ pc = "FORWARDING"
    /\ \E r \in SuccessOutcomes(req) :
          /\ response' = r
          /\ sent_status' = Append(sent_status, r.status)
          /\ sent_headers' = sent_headers \o SuccessHeaders(r.headers)
          /\ ended' = TRUE
          /\ wfile' = Append(wfile, r.body)
    /\ pc' = "RELAYED"
    /\ UNCHANGED <<nreq, method, path, headers, rfile, call, req,
                   backend_calls, only_options,
                   calls, failed_before>>
    /\ UNCHANGED sink_vars

\* The HTTPError branch answering 500 whatever the backend's code.
relay_http_error_Always500 ==
    /\ pc = "FORWARDING"
    /\ \E r \in HTTPErrorOutcomes :
          /\ response' = r
          /\ sent_status' = Append(sent_status, 500)
          /\ sent_headers' = sent_headers \o <<TextPlain, CorsOrigin>>
          /\ ended' = TRUE
          /\ wfile' = Append(wfile, "Proxy error: " \o r.reason)
    /\ pc' = "ERROR_RELAYED"
    /\ UNCHANGED <<nreq, method, path, headers, rfile, call, req,
                   backend_calls, only_options,
                   calls, failed_before>>
    /\ UNCHANGED sink_vars

\* urlopen returned, but the client has closed the connection: the write of
\* the headers (end_headers) or of the body raises inside the try block, the
\* except Exception branch starts a 500 response on the same connection, and
\* its own write raises too, out of the handler.
relay_success_client_gone ==
    /\ pc = "FORWARDING"
    /\ \E r \in SuccessOutcomes(req) :
          /\ response' = r
          /\ sent_status' = Append(Append(sent_status, r.status), 500)
          /\ sent_headers' = sent_headers \o SuccessHeaders(r.headers)
                                          \o ErrorHeaders
    /\ ended' = TRUE
    /\ pc' = "ABORTED"
    /\ UNCHANGED <<nreq, method, path, headers, rfile, call, req,
                   backend_calls, wfile, only_options, calls, failed_before>>
    /\ UNCHANGED sink_vars

\* urlopen raised HTTPError: relay its code with a diagnostic body.
relay_http_error ==
    /\ pc = "FORWARDING"
    /\ \E r \in HTTPErrorOutcomes :
          /\ response' = r
          /\ sent_status' = Append(sent_status, r.status)
          /\ sent_headers' = sent_headers \o ErrorHeaders
          /\ ended' = TRUE
          /\ wfile' = Append(wfile, ErrorBody(r.reason))
    /\ pc' = "ERROR_RELAYED"
    /\ UNCHANGED <<nreq, method, path, headers, rfile, call, req,
                   backend_calls, only_options,
                   calls, failed_before>>
    /\ UNCHANGED sink_vars

\* _proxy_request catching only HTTPError: any other exception leaves the
\* handler and the connection is closed with nothing written.
relay_exception_Uncaught ==
    /\ pc = "FORWARDING"
    /\ \E r \in ExceptionOutcomes : response' = r
    /\ pc' = "ABORTED"
    /\ UNCHANGED <<nreq, method, path, headers, rfile, call, req,
                   backend_calls, sent_status, sent_headers, ended, wfile,
                   only_options,
                   calls, failed_before>>
    /\ UNCHANGED sink_vars

\* urlopen raised anything else: answer 500 with a diagnostic body.
relay_exception ==
    /\ pc = "FORWARDING"
    /\ \E r \in ExceptionOutcomes :
          /\ response' = r
          /\ sent_status' = Append(sent_status, 500)
          /\ sent_headers' = sent_headers \o ErrorHeaders
          /\ ended' = TRUE
          /\ wfile' = Append(wfile, ErrorBody(r.reason))
    /\ pc' = "ERROR_RELAYED"
    /\ UNCHANGED <<nreq, method, path, headers, rfile, call, req,
                   backend_calls, only_options,
                   calls, failed_before>>
    /\ UNCHANGED sink_vars

\* ---------------------------------------------------------------------
\* The log server: handlers (server/log_server.py)
\* ---------------------------------------------------------------------

SinkIdle == \A d \in SinkConns : sink_conn[d].pc \in {"WAITING", "CLOSED"}

\* A threading server: a connection is accepted while another is handled.
SinkAccept_Threaded ==
    /\ \E c \in SinkConns, p \in SinkPaths, e \in SinkEncodings,
          b \in SinkBodies :
          /\ sink_conn[c].pc = "WAITING"
          /\ sink_conn' = [sink_conn EXCEPT ![c] =
                 [NoSinkConn EXCEPT !.pc = "RECEIVED", !.path = p,
                                    !.encoding = e, !.rfile = b]]
    /\ UNCHANGED <<sink_files, vars>>

\* socketserver.TCPServer.serve_forever: the next connection is accepted
\* once the handler of the previous one has returned.  The request is a
\* POST whose Content-Length is the length of its body.
SinkAccept ==
    /\ SinkIdle
    /\ \E c \in SinkConns, p \in SinkPaths, e \in SinkEncodings,
          b \in SinkBodies :
          /\ sink_conn[c].pc = "WAITING"
          /\ sink_conn' = [sink_conn EXCEPT ![c] =
                 [NoSinkConn EXCEPT !.pc = "RECEIVED", !.path = p,
                                    !.encoding = e, !.rfile = b]]
    /\ UNCHANGED <<sink_files, vars>>

\* send_response(status), the headers, end_headers() and the body.
SinkRespond(h, st, rs, hs, b) ==
    [h EXCEPT !.pc = "DONE", !.f = <<>>, !.resp = SinkResponse(st, rs, hs, b)]

\* The except branch: 500 and the text of the exception.
SinkRespond500(h, msg) ==
    SinkRespond(h, 500, "Internal Server Error", <<>>, ErrorJson(msg))

\* do_POST and _handle_logs up to the opening of the log file.
Sink_handle_logs(h) ==
    LET content_length == Len(h.rfile)
        body == IF h.encoding = "gzip" THEN GzipDecompress(h.rfile)
                ELSE Some(h.rfile)
        text == IF body = None THEN None ELSE Utf8Decode(body[1])
        log_data == IF text = None THEN None ELSE JsonLoads(text[1])
    IN  IF h.path \notin {"/logs", "/"}
        THEN SinkRespond(h, 404, "Not Found", <<>>, "")
        ELSE IF content_length = 0
        THEN SinkRespond(h, 400, "Bad Request", <<>>, "")
        ELSE IF body = None
        THEN SinkRespond500(h, "Not a gzipped file")
        ELSE IF text = None
        THEN SinkRespond500(h, "'utf-8' codec can't decode byte")
        ELSE IF log_data = None
        THEN SinkRespond(h, 400, "Bad Request", <<>>, "")
        ELSE IF log_data[1].t # "dict"
        THEN SinkRespond500(h, "'list' object has no attribute 'get'")
        ELSE LET device_id == DictGet(log_data[1], "device_id",
                                      JStr("unknown"))
             IN  [h EXCEPT !.pc = "WRITING",
                           !.device_id = device_id,
                           !.logs = DictGet(log_data[1], "logs", JList(<<>>)),
                           !.log_file = LogFileName(device_id)]

Sink_do_POST ==
    /\ \E c \in SinkConns :
          /\ sink_conn[c].pc = "RECEIVED"
          /\ sink_conn' = [sink_conn EXCEPT ![c] = Sink_handle_logs(@)]
    /\ UNCHANGED <<sink_files, vars>>

\* The entry the loop is at raises: logs is not a list, or the entry has
\* no get().
SinkEntryRaises(h) ==
    IF h.logs.t # "list" THEN TRUE
    ELSE /\ h.k < Len(h.logs.v)
         /\ h.logs.v[h.k + 1].t # "dict"

\* One turn of the loop: f.write(log_line + '\n') into the file's buffer.
Sink_write ==
    /\ \E c \in SinkConns :
          LET h == sink_conn[c] IN
          /\ h.pc = "WRITING"
          /\ ~SinkEntryRaises(h)
          /\ h.k < Len(h.logs.v)
          /\ sink_conn' = [sink_conn EXCEPT ![c] =
                 [h EXCEPT !.k = h.k + 1,
                           !.f = Append(h.f,
                                    Chunk(c, h.k + 1, "line",
                                          LogLine(h.logs.v[h.k + 1], Now,
                                                  h.device_id)))]]
    /\ UNCHANGED <<sink_files, vars>>

\* The buffer of the file fills up inside the last line written: what
\* precedes goes to the file, the rest of the line stays in the buffer.
Sink_buffer_full ==
    /\ \E c \in SinkConns :
          LET h == sink_conn[c]
              last == h.f[Len(h.f)]
          IN
          /\ h.pc = "WRITING"
          /\ h.f # <<>>
          /\ last.part = "line"
          /\ sink_files' = [sink_files EXCEPT ![h.log_file] =
                 @ \o SubSeq(h.f, 1, Len(h.f) - 1)
                   \o <<[last EXCEPT !.part = "head"]>>]
          /\ sink_conn' = [sink_conn EXCEPT ![c] =
                 [h EXCEPT !.f = <<[last EXCEPT !.part = "tail"]>>]]
    /\ UNCHANGED vars

\* The loop raises: the with block closes the file, which writes the
\* buffer out, and the except branch answers 500.
Sink_write_raises ==
    /\ \E c \in SinkConns :
          LET h == sink_conn[c] IN
          /\ h.pc = "WRITING"
          /\ SinkEntryRaises(h)
          /\ sink_files' = [sink_files EXCEPT ![h.log_file] = @ \o h.f]
          /\ sink_conn' = [sink_conn EXCEPT ![c] =
                 SinkRespond500(h, IF h.logs.t # "list"
                                   THEN "'int' object is not iterable"
                                   ELSE "'int' object has no attribute 'get'")]
    /\ UNCHANGED vars

\* The loop is over: the file is closed and the sink answers 200.
Sink_respond_ok ==
    /\ \E c \in SinkConns :
          LET h == sink_conn[c] IN
          /\ h.pc = "WRITING"
          /\ ~SinkEntryRaises(h)
          /\ h.k = Len(h.logs.v)
          /\ sink_files' = [sink_files EXCEPT ![h.log_file] = @ \o h.f]
          /\ sink_conn' = [sink_conn EXCEPT ![c] =
                 SinkRespond(h, 200, "OK", LogHeaders, OkJson(Len(h.logs.v)))]
    /\ UNCHANGED vars

\* What the proxy makes of the sink's answer for its client: a 2xx answer
\* is relayed, any other makes urlopen raise HTTPError.
SinkRelayed(resp) ==
    IF resp.status \in 200..299
    THEN SinkResponse(resp.status, resp.reason,
                      SuccessHeaders(resp.headers), resp.body)
    ELSE SinkResponse(resp.status, resp.reason, ErrorHeaders,
                      ErrorBody(resp.reason))

Sink_relayed_by_proxy ==
    /\ \E c \in SinkConns :
          LET h == sink_conn[c] IN
          /\ h.pc = "DONE"
          /\ sink_conn' = [sink_conn EXCEPT ![c] =
                 [h EXCEPT !.pc = "RELAYED", !.client = SinkRelayed(h.resp)]]
    /\ UNCHANGED <<sink_files, vars>>

\* The handler returns and the connection is closed.
SinkFinish ==
    /\ \E c \in SinkConns :
          /\ sink_conn[c].pc = "RELAYED"
          /\ sink_conn' = [sink_conn EXCEPT ![c] =
                 [NoSinkConn EXCEPT !.pc = "CLOSED"]]
    /\ UNCHANGED <<sink_files, vars>>

\* ---------------------------------------------------------------------
\* Specification
\* ---------------------------------------------------------------------

Next ==
    \/ Accept
    \/ Finish
    \/ do_GET
    \/ do_POST
    \/ do_PUT
    \/ do_DELETE
    \/ do_OPTIONS
    \/ ReadReturnsShort
    \/ proxy_request_send
    \/ relay_success
    \/ relay_success_client_gone
    \/ relay_http_error
    \/ relay_exception

Spec == Init /\ [][Next]_all_vars

SinkNext ==
    \/ SinkAccept
    \/ Sink_do_POST
    \/ Sink_write
    \/ Sink_buffer_full
    \/ Sink_write_raises
    \/ Sink_respond_ok
    \/ Sink_relayed_by_proxy
    \/ SinkFinish

SinkSpec == Init /\ [][SinkNext]_all_vars

SinkTypeOK ==
    /\ \A c \in SinkConns :
          sink_conn[c].pc \in {"WAITING", "RECEIVED", "WRITING", "DONE",
                               "RELAYED", "CLOSED"}
    /\ DOMAIN sink_files = SinkFileNames

TypeOK ==
    /\ pc \in {"IDLE", "RECEIVED", "READING", "ROUTED", "FORWARDING"}
              \cup Terminal
    /\ nreq \in 0..MaxRequests
    /\ Len(sent_status) <= 2
    /\ Len(calls) <= 1

\* ---------------------------------------------------------------------
\* Properties
\* ---------------------------------------------------------------------

Range(seq) == {seq[i] : i \in 1..Len(seq)}

\* The request has been routed: _proxy_request was called with a target.
Routed == pc \in {"ROUTED", "FORWARDING", "RELAYED", "ERROR_RELAYED"}

\* The outbound request has been sent to a backend.
Forwarded == pc \in {"FORWARDING", "RELAYED", "ERROR_RELAYED"}

\* C1: every routed request whose path starts with "/logs" or with
\* "/health" has the log server as its target, whatever its method.
C1_LogPrefixesToLogServer ==
    (Routed /\ (StartsWith(path, "/logs") \/ StartsWith(path, "/health")))
        => /\ call.target_url = LOG_SERVER_URL \o path
           /\ call.method = method

\* C2: every routed request whose path starts neither with "/logs" nor with
\* "/health" has as target the asset server URL followed by the unmodified
\* path (query string included), and that URL is the one the backend call
\* is made to.
C2_OtherPathsToAssetServer ==
    (Routed /\ ~StartsWith(path, "/logs") /\ ~StartsWith(path, "/health"))
        => /\ call.target_url = ASSET_SERVER_URL \o path
           /\ call.method = method
           /\ Forwarded => req.full_url = ASSET_SERVER_URL \o path

\* A PUT of a path with a query string was sent to the asset server.
C2_Witness ==
    /\ pc = "FORWARDING"
    /\ method = "PUT"
    /\ path = "/index.ht?v=1"
    /\ req.full_url = "http://localhost:8002/index.ht?v=1"

\* C3: an OPTIONS request is answered with status 200, exactly the three
\* CORS headers and no body, no backend request is built for it, and as long
\* as only OPTIONS requests were accepted no backend was ever called.
C3_OptionsAnsweredLocally ==
    /\ (method = "OPTIONS" /\ pc \in Terminal) =>
           /\ pc = "ANSWERED"
           /\ sent_status = <<200>>
           /\ sent_headers = <<CorsOrigin, CorsMethods, CorsHeaders>>
           /\ ended
           /\ wfile = <<>>
           /\ req = NoReq
    /\ only_options => backend_calls = [log |-> 0, asset |-> 0]

\* A second OPTIONS request, to a log path, was answered and no backend was
\* called.
C3_Witness ==
    /\ pc = "ANSWERED"
    /\ nreq = 2
    /\ only_options
    /\ path = "/logs"
    /\ sent_status = <<200>>
    /\ backend_calls = [log |-> 0, asset |-> 0]

\* C4: once the handling of a request is over, a response was written: one
\* status line and the end of the headers.  No request ends with the
\* connection closed and nothing sent.
C4_AlwaysAResponse ==
    pc \in Terminal => (Len(sent_status) = 1 /\ ended)

\* C5: when the backend call fails with anything but an HTTP error, the
\* client gets status 500, Content-Type: text/plain,
\* Access-Control-Allow-Origin: * and a body naming the failure; a timeout of
\* the backend call is one of these failures, so it ends in this response.
C5_TransportFailureIs500 ==
    (response.kind = "Exception" /\ pc # "FORWARDING") =>
        /\ pc = "ERROR_RELAYED"
        /\ sent_status = <<500>>
        /\ TextPlain \in Range(sent_headers)
        /\ CorsOrigin \in Range(sent_headers)
        /\ ended
        /\ wfile = <<"Proxy error: " \o response.reason>>

\* The asset server timed out on a GET and the client was answered 500.
C5_Witness ==
    /\ pc = "ERROR_RELAYED"
    /\ response.kind = "Exception"
    /\ response.reason = "timed out"
    /\ method = "GET"
    /\ req.full_url = "http://localhost:8002/index.ht?v=1"
    /\ sent_status = <<500>>
    /\ wfile = <<"Proxy error: timed out">>

\* C6: when the backend call raises an HTTP error with status s, the client
\* gets exactly s, Content-Type: text/plain, Access-Control-Allow-Origin: *
\* and the diagnostic body "Proxy error: <reason>"; the backend's error body
\* is not written.
C6_HTTPErrorStatusRelayed ==
    (response.kind = "HTTPError" /\ pc # "FORWARDING") =>
        /\ pc = "ERROR_RELAYED"
        /\ sent_status = <<response.status>>
        /\ sent_headers = <<TextPlain, CorsOrigin>>
        /\ ended
        /\ wfile = <<"Proxy error: " \o response.reason>>
        /\ response.body \notin Range(wfile)

\* The asset server answered 404 with an error page for /missing.ht and the
\* client got 404 with the diagnostic body.
C6_Witness ==
    /\ pc = "ERROR_RELAYED"
    /\ path = "/missing.ht"
    /\ response.kind = "HTTPError"
    /\ response.status = 404
    /\ response.body = "<html>404</html>"
    /\ sent_status = <<404>>
    /\ wfile = <<"Proxy error: File not found">>

\* The three CORS header names.
CorsNames == {CorsOrigin[1], CorsMethods[1], CorsHeaders[1]}

\* C7 as stated: every response the proxy emits carries all three CORS
\* headers.
C7_AllThreeOnEveryResponse ==
    ended => {CorsOrigin, CorsMethods, CorsHeaders} \subseteq Range(sent_headers)

\* C7 as amended: every response the proxy emits carries
\* Access-Control-Allow-Origin: *; the success and the OPTIONS responses
\* carry all three CORS headers; both error responses carry neither
\* Access-Control-Allow-Methods nor Access-Control-Allow-Headers.
C7_CorsPerResponseKind ==
    ended =>
        /\ CorsOrigin \in Range(sent_headers)
        /\ pc \in {"RELAYED", "ANSWERED"} =>
               {CorsMethods, CorsHeaders} \subseteq Range(sent_headers)
        /\ pc = "ERROR_RELAYED" =>
               /\ Occurrences(sent_headers, CorsMethods[1]) = {}
               /\ Occurrences(sent_headers, CorsHeaders[1]) = {}

\* A backend HTTP error was answered with the origin header only.
C7_Witness ==
    /\ pc = "ERROR_RELAYED"
    /\ ended
    /\ response.kind = "HTTPError"
    /\ CorsOrigin \in Range(sent_headers)
    /\ CorsMethods \notin Range(sent_headers)

\* C8: on a successful relay each of the three CORS header names occurs
\* exactly once in the relayed response, with the proxy's value.
C8_CorsHeadersOverwritten ==
    pc = "RELAYED" =>
        \A h \in {CorsOrigin, CorsMethods, CorsHeaders} :
            /\ Cardinality(Occurrences(sent_headers, h[1])) = 1
            /\ \A i \in Occurrences(sent_headers, h[1]) : sent_headers[i][2] = h[2]

\* The number of headers of a list that are not a Connection header.
NotConnection(hs) ==
    Cardinality({i \in 1..Len(hs) : Lower(hs[i][1]) # "connection"})

\* C9: on a successful backend response the relayed response has the
\* backend's status code, has every backend header that is not a Connection
\* header (in any letter case) and no Connection header, adds only the three
\* CORS headers, and has the backend's body written exactly once.
C9_SuccessRelayedVerbatim ==
    pc = "RELAYED" =>
        /\ sent_status = <<response.status>>
        /\ \A i \in 1..Len(response.headers) :
               Lower(response.headers[i][1]) # "connection" =>
                   response.headers[i] \in Range(sent_headers)
        /\ Occurrences(sent_headers, "Connection") = {}
        /\ Len(sent_headers) = NotConnection(response.headers) + 3
        /\ ended
        /\ wfile = <<response.body>>

\* A response with Connection headers in two letter cases and a body was
\* relayed.
C9_Witness ==
    /\ pc = "RELAYED"
    /\ response.headers = OtherHeaders
    /\ response.body = "{\"status\": \"ok\", \"received\": 1}"
    /\ <<"X-Backend", "b">> \in Range(sent_headers)
    /\ wfile = <<response.body>>

\* The request has an integer Content-Length and the client sent at least
\* that many body bytes.
WholeBodySent ==
    /\ ContentLength(headers) # None
    /\ ContentLength(headers)[1] >= 0
    /\ Len(rfile) >= ContentLength(headers)[1]

\* The first Content-Length bytes the client sent.
InboundBody == SubSeq(rfile, 1, ContentLength(headers)[1])

\* C10 as stated: for a forwarded request of any method with Content-Length
\* n, the body sent to the backend is the n inbound body bytes, and a backend
\* that echoes it makes the client receive them.
C10_BodyForwardedAnyMethod ==
    (Forwarded /\ WholeBodySent) =>
        /\ EchoBody(req) = InboundBody
        /\ (pc = "RELAYED" /\ response.body = EchoBody(req)) =>
               wfile = <<InboundBody>>

\* C10 as amended: for a forwarded POST or PUT with Content-Length n > 0 the
\* body sent to the backend is exactly the n inbound body bytes, sent once,
\* and a backend that echoes it makes the client receive them; a POST or PUT
\* with Content-Length 0 or absent, and every GET and DELETE whatever its
\* Content-Length, is forwarded without a body.
C10_BodyForwardedPostPut ==
    (Forwarded /\ WholeBodySent) =>
        /\ (method \in {"POST", "PUT"} /\ ContentLength(headers)[1] > 0) =>
               /\ req.data = <<InboundBody>>
               /\ (pc = "RELAYED" /\ response.body = EchoBody(req)) =>
                      wfile = <<InboundBody>>
        /\ (method \in {"POST", "PUT"} /\ ContentLength(headers)[1] = 0) =>
               req.data = None
        /\ method \in {"GET", "DELETE"} => req.data = None

\* A PUT with Content-Length 2 and body "ab" was echoed back to the client.
C10_Witness ==
    /\ pc = "RELAYED"
    /\ method = "PUT"
    /\ HeaderGet(headers, "Content-Length", "") = "2"
    /\ rfile = "ab"
    /\ req.data = <<"ab">>
    /\ wfile = <<"ab">>

\* The inbound headers the proxy is to forward: all but Host, Connection and
\* Content-Length, in any letter case.
ForwardableHeaders ==
    {i \in 1..Len(headers) :
        Lower(headers[i][1]) \notin {"host", "connection", "content-length"}}

\* C11: the outbound request carries no Host and no Connection header of
\* the client, every other inbound header (each duplicate too) is in it with
\* its value, and its Content-Length is the length of the forwarded body,
\* not the client's value.
C11_HeadersFiltered ==
    Forwarded =>
        /\ \A K \in DOMAIN req.headers : Lower(K) \notin {"host", "connection"}
        /\ \A i \in ForwardableHeaders :
               \E K \in DOMAIN req.headers :
                   /\ Lower(K) = Lower(headers[i][1])
                   /\ req.headers[K] = headers[i][2]
        /\ \A K \in DOMAIN req.headers :
               Lower(K) = "content-length" =>
                   /\ req.data # None
                   /\ req.headers[K] = IntToStr(Len(req.data[1]))
        /\ Truthy(req.data) =>
               \E K \in DOMAIN req.headers : Lower(K) = "content-length"

\* C12: every request other than OPTIONS whose handling is over made exactly
\* one backend call, to the backend of the target its handler computed, and
\* the request sent is the one for that target.
C12_ExactlyOneBackendCall ==
    (pc \in Terminal /\ method # "OPTIONS") =>
        /\ Len(calls) = 1
        /\ calls[1] = BackendOf(call.target_url)
        /\ req.full_url = call.target_url

\* The Content-Length header is present and is not a non-negative integer.
MalformedContentLength ==
    \/ ContentLength(headers) = None
    \/ ContentLength(headers)[1] < 0

\* C13: a POST or PUT with a malformed Content-Length is either answered 400
\* or passed through to the backend with the result relayed; either way a
\* response was written when its handling is over.
C13_MalformedContentLengthAnswered ==
    (pc \in Terminal /\ method \in {"POST", "PUT"} /\ MalformedContentLength) =>
        \/ sent_status = <<400>> /\ ended
        \/ /\ Len(calls) = 1
           /\ pc \in {"RELAYED", "ERROR_RELAYED"}
           /\ Len(sent_status) = 1
           /\ ended

\* C14: no failure of a request stops the listener.  Whatever way the
\* handling of a request ended (backend unreachable, backend HTTP error,
\* client gone during the relay, exception in the handler) the listener
\* closes that connection and accepts the next one, and a request served
\* after a failed one is routed, forwarded once and answered with the
\* backend's status and body.
C14_ListenerSurvivesFailures ==
    /\ pc \in Terminal => ENABLED Finish
    /\ (pc = "IDLE" /\ nreq < MaxRequests) => ENABLED Accept
    /\ (failed_before /\ pc = "RELAYED") =>
           /\ calls = <<BackendOf(TargetURL(method, path))>>
           /\ req.full_url = TargetURL(method, path)
           /\ sent_status = <<response.status>>
           /\ ended
           /\ wfile = <<response.body>>

\* After a failed request, a second one was relayed from the log server.
C14_Witness ==
    /\ failed_before
    /\ nreq = 2
    /\ pc = "RELAYED"
    /\ method = "POST"
    /\ path = "/logs"
    /\ calls = <<"log">>
    /\ sent_status = <<200>>

\* C19: at most one status line is begun per request.
C19_AtMostOneStatusLine ==
    Len(sent_status) <= 1

\* C15 as stated: while a request is blocked in its backend call, a
\* connection that arrives is accepted without waiting for it.
C15_AcceptedWhileForwarding ==
    (pc = "FORWARDING" /\ nreq < MaxRequests) => ENABLED Accept

\* C15 as amended: the listener serves one connection at a time.  A
\* connection is accepted only when no request is in progress, and as long
\* as a request is in progress (blocked in its backend call or anywhere
\* else) no other request is accepted.
C15_OneRequestAtATime ==
    [][/\ nreq' # nreq => (pc = "IDLE" /\ pc' = "RECEIVED")
       /\ pc \notin {"IDLE"} \cup Terminal => nreq' = nreq]_vars

\* The second request is in its backend call, after the first one made and
\* finished its own.
C15_Witness ==
    /\ nreq = 2
    /\ pc = "FORWARDING"
    /\ backend_calls.log + backend_calls.asset = 2

\* ---------------------------------------------------------------------
\* The log server's claims (specification SinkSpec)
\* ---------------------------------------------------------------------

\* The handler of connection c has answered.
SinkAnswered(c) == sink_conn[c].pc \in {"DONE", "RELAYED"}

\* The chunks of a file that end a line.
IsLineEnd(ch) == ch.part # "head"

CompleteLines(file) == SelectSeq(file, IsLineEnd)

\* The positions of a file that hold something of the batch of c.
PositionsOf(file, c) == {i \in 1..Len(file) : file[i].batch = c}

LineFields == {"timestamp", "level", "component", "message", "device_id"}

\* The JSON value a request carries: what gzip.decompress, decode and
\* json.loads make of its body, None when one of them fails.
PostedJson(h) ==
    LET body == IF h.encoding = "gzip" THEN GzipDecompress(h.rfile)
                ELSE Some(h.rfile)
        text == IF body = None THEN None ELSE Utf8Decode(body[1])
    IN  IF text = None THEN None ELSE JsonLoads(text[1])

\* The value is a batch: an object whose logs are a list of objects.
IsValidBatch(j) ==
    IF j = None THEN FALSE
    ELSE IF j[1].t # "dict" THEN FALSE
    ELSE IF "logs" \notin DOMAIN j[1].v THEN FALSE
    ELSE IF j[1].v.logs.t # "list" THEN FALSE
    ELSE \A i \in 1..Len(j[1].v.logs.v) : j[1].v.logs.v[i].t = "dict"

\* C16: appends to one log file are serialized.  In every log file, what
\* one batch wrote is contiguous (nothing of another batch lies between two
\* pieces of it), every line is a complete record with its five fields,
\* and the two parts of a line the buffer split are adjacent; only the
\* line the running handler is in the middle of writing may lack its end.
C16_AppendsSerialized ==
    \A n \in SinkFileNames :
       LET file == sink_files[n] IN
       /\ \A i \in 1..Len(file), j \in 1..Len(file) :
             (i < j /\ file[i].batch = file[j].batch) =>
                 \A m \in i..j : file[m].batch = file[i].batch
       /\ \A i \in 1..Len(file) :
             /\ DOMAIN file[i].line = LineFields
             /\ file[i].part = "tail" =>
                   /\ i > 1
                   /\ file[i - 1] = [file[i] EXCEPT !.part = "head"]
             /\ file[i].part = "head" =>
                   IF i < Len(file)
                   THEN file[i + 1] = [file[i] EXCEPT !.part = "tail"]
                   ELSE /\ sink_conn[file[i].batch].pc = "WRITING"
                        /\ sink_conn[file[i].batch].f # <<>>
                        /\ sink_conn[file[i].batch].f[1]
                              = [file[i] EXCEPT !.part = "tail"]

\* Two connections posted batches for the same device, the file holds
\* lines of both, and the buffer filled up in the middle of a line.
C16_Witness ==
    \E n \in SinkFileNames :
       /\ PositionsOf(sink_files[n], 1) # {}
       /\ PositionsOf(sink_files[n], 2) # {}
       /\ \E i \in 1..Len(sink_files[n]) : sink_files[n][i].part = "head"

\* C17: a POST to /logs with a valid batch of n entries is answered 200
\* with {"status": "ok", "received": n}; the n lines of the batch, one per
\* entry and in batch order, are the last n lines of the file of its
\* device and day and no other file holds anything of the batch; through
\* the proxy the client gets status 200, the same body and the three CORS
\* headers.
C17_ValidBatchStored ==
    \A c \in SinkConns :
       LET h == sink_conn[c]
           j == PostedJson(h)
       IN
       (SinkAnswered(c) /\ h.path = "/logs" /\ IsValidBatch(j)) =>
           LET entries == j[1].v.logs.v
               device == DictGet(j[1], "device_id", JStr("unknown"))
               n == Len(entries)
               lines == CompleteLines(sink_files[LogFileName(device)])
           IN
           /\ h.resp.status = 200
           /\ h.resp.body = "{\"status\": \"ok\", \"received\": "
                                \o IntToStr(n) \o "}"
           /\ Len(lines) >= n
           /\ \A i \in 1..n :
                 /\ lines[Len(lines) - n + i].batch = c
                 /\ lines[Len(lines) - n + i].entry = i
                 /\ lines[Len(lines) - n + i].line
                       = LogLine(entries[i], Now, device)
           /\ Cardinality(PositionsOf(lines, c)) = n
           /\ \A other \in SinkFileNames \ {LogFileName(device)} :
                 PositionsOf(sink_files[other], c) = {}
           /\ h.pc = "RELAYED" =>
                 /\ h.client.status = 200
                 /\ h.client.body = h.resp.body
                 /\ {CorsOrigin, CorsMethods, CorsHeaders}
                       \subseteq Range(h.client.headers)

\* The batch of two entries was posted to /logs after another batch for
\* the same device, and the proxy relayed the sink's answer.
C17_Witness ==
    \E c \in SinkConns :
       /\ sink_conn[c].pc = "RELAYED"
       /\ sink_conn[c].path = "/logs"
       /\ sink_conn[c].rfile = BatchTwo
       /\ sink_conn[c].resp.status = 200
       /\ Len(CompleteLines(sink_files[LogFileName(JStr("dev1"))])) > 2

\* The body the request carries after the optional decompression, None
\* when it cannot be decompressed.
PostedBody(h) ==
    IF h.encoding = "gzip" THEN GzipDecompress(h.rfile) ELSE Some(h.rfile)

\* C18: a POST on /logs or / whose body is empty or, after the optional
\* decompression, is not valid JSON (bytes that are not decodable text,
\* text that is not JSON) is answered 400, never 500.
C18_InvalidInputIs400 ==
    \A c \in SinkConns :
       LET h == sink_conn[c] IN
       (/\ SinkAnswered(c)
        /\ h.path \in {"/logs", "/"}
        /\ \/ h.rfile = ""
           \/ PostedBody(h) # None /\ PostedJson(h) = None) =>
           h.resp.status = 400

\* C20: a batch is handled atomically.  When the sink has answered with a
\* status other than 200, no file holds anything of the batch; when it has
\* answered 200, every entry of the batch has its line.
C20_BatchAtomic ==
    \A c \in SinkConns :
       LET h == sink_conn[c] IN
       SinkAnswered(c) =>
           IF h.resp.status = 200
           THEN Cardinality(PositionsOf(CompleteLines(sink_files[h.log_file]), c))
                    = Len(h.logs.v)
           ELSE \A n \in SinkFileNames : PositionsOf(sink_files[n], c) = {}

====
